---- MODULE Spec2Model ----
(***************************************************************************)
(* A model of pictool: the command-line pipeline of pictool1.py            *)
(* (parse_args, extract_options, lookup_command, read_image, verify_image, *)
(* save_image, main) and the transforms of plugins2.py that it dispatches  *)
(* to.  Strings are sequences of atoms (an atom is one character, or one   *)
(* indivisible word such as a command name); floating-point values are     *)
(* IEEE-754 doubles computed exactly, as CPython computes them.            *)
(***************************************************************************)
EXTENDS Integers, Sequences, FiniteSets, TLC

VARIABLES
    pc,        \* position of main(): start, parsed, loaded, processed, done, crashed
    argv,      \* sys.argv: a sequence of tokens
    result,    \* the dict parse_args returned (main's local `args`)
    buffer,    \* main's local `buffer`: the contents of the list read_image built
    process,   \* main's local `process`: what the transform returned
    written,   \* what the codec wrote to the output path (<<>>: nothing yet)
    failure,   \* why the run ended early, "" if it did not
    decodes,   \* number of read_image calls of this run
    calls,     \* number of transform calls of this run
    encodes,   \* number of save_image calls of this run
    raw,       \* an option's raw value text (extract_options, in isolation)
    tagged,    \* the value extract_options stores for it
    hist,      \* the buffers of a chain of transform applications, oldest first
    op         \* the transform of that chain: [name, arg]

vars == <<pc, argv, result, buffer, process, written, failure,
          decodes, calls, encodes, raw, tagged, hist, op>>

pipelineVars == <<pc, argv, result, buffer, process, written, failure,
                  decodes, calls, encodes>>
coerceVars == <<raw, tagged>>
chainVars == <<hist, op>>

(***************************************************************************)
(* Bounds of the model.                                                    *)
(***************************************************************************)
MaxArgs == 4       \* tokens after the script name in sys.argv
MaxValueLen == 3   \* atoms in an option's raw value
MaxDim == 2        \* height and width of a buffer
MaxApply == 4      \* applications in a chain of one transform
MaxSide == 3       \* height and width of a buffer a filter is applied to

(***************************************************************************)
(* Natural numbers of any size, as little-endian sequences of 13-bit       *)
(* limbs: TLC's integers are 32-bit, a double's mantissa has 53 bits.      *)
(***************************************************************************)
Base == 2^13

Pow2(k) == 2^k

Limb(x, i) == IF i >= 1 /\ i <= Len(x) THEN x[i] ELSE 0

\* the number of limbs of x up to its last limb that is not 0
Significant(x) ==
    IF \A i \in 1..Len(x) : x[i] = 0 THEN 0
    ELSE CHOOSE i \in 1..Len(x) : x[i] # 0 /\ \A j \in (i + 1)..Len(x) : x[j] = 0

Norm(x) == SubSeq(x, 1, Significant(x))

RECURSIVE FromInt(_)
FromInt(n) == IF n = 0 THEN <<>> ELSE <<n % Base>> \o FromInt(n \div Base)

RECURSIVE ToInt(_)
ToInt(x) == IF x = <<>> THEN 0 ELSE x[1] + Base * ToInt(Tail(x))

\* the carry into limb i of x + y: a lower pair of limbs overflows and every
\* pair between the two passes the carry on
AddCarry(x, y, i) ==
    IF \E j \in 1..(i - 1) :
          /\ Limb(x, j) + Limb(y, j) >= Base
          /\ \A k \in (j + 1)..(i - 1) : Limb(x, k) + Limb(y, k) = Base - 1
    THEN 1 ELSE 0

AddLimbs(x, y, n) ==
    [i \in 1..(n + 1) |-> (Limb(x, i) + Limb(y, i) + AddCarry(x, y, i)) % Base]

BAdd(x, y) ==
    IF x = <<>> THEN Norm(y)
    ELSE IF y = <<>> THEN Norm(x)
    ELSE Norm(AddLimbs(x, y, IF Len(x) > Len(y) THEN Len(x) ELSE Len(y)))

ShiftLimbs(x, n) == IF x = <<>> THEN <<>> ELSE [i \in 1..n |-> 0] \o x

\* x * k for a limb-sized k (0 <= k < Base): the low limbs of the products
\* x[i] * k, plus their high limbs one place up
BMulSmall(x, k) ==
    IF x = <<>> \/ k = 0 THEN <<>>
    ELSE BAdd([i \in 1..Len(x) |-> (x[i] * k) % Base],
              [i \in 1..(Len(x) + 1) |-> (Limb(x, i - 1) * k) \div Base])

RECURSIVE MulFrom(_, _, _)
MulFrom(x, y, j) ==
    IF j > Len(y) THEN <<>>
    ELSE BAdd(ShiftLimbs(BMulSmall(x, y[j]), j - 1), MulFrom(x, y, j + 1))

BMul(x, y) == MulFrom(x, y, 1)

\* number of significant bits of a limb, of a number
LimbLen(v) == Cardinality({n \in 0..30 : Pow2(n) <= v})

LimbBits == LimbLen(Base - 1)

BitLen(x) == IF x = <<>> THEN 0 ELSE LimbBits * (Len(x) - 1) + LimbLen(x[Len(x)])

\* bit i of x, bit 0 the lowest
Bit(x, i) == (Limb(x, (i \div LimbBits) + 1) \div Pow2(i % LimbBits)) % 2

Shl(x, k) == ShiftLimbs(BMulSmall(x, Pow2(k % LimbBits)), k \div LimbBits)

\* floor(x / 2^k), k = LimbBits * q + r: limb j is the high bits of limb
\* q + j of x under the low r bits of the limb above it
ShrLimbs(x, q, r) ==
    [j \in 1..(Len(x) - q) |->
        (x[q + j] \div Pow2(r)) + (Limb(x, q + j + 1) % Pow2(r)) * Pow2(LimbBits - r)]

Shr(x, k) == Norm(ShrLimbs(x, k \div LimbBits, k % LimbBits))

\* the number written by hexadecimal digits: the first digits, shifted past
\* the last `low` digits, plus those
RECURSIVE FromHex(_)
HexJoin(digits, low) ==
    BAdd(Shl(FromHex(SubSeq(digits, 1, Len(digits) - low)), 4 * low),
         FromHex(SubSeq(digits, Len(digits) - low + 1, Len(digits))))

FromHex(digits) ==
    IF digits = <<>> THEN <<>>
    ELSE IF Len(digits) = 1 THEN FromInt(digits[1])
    ELSE HexJoin(digits, Len(digits) \div 2)

(***************************************************************************)
(* IEEE-754 doubles that are >= 0: [m, e] is m * 2^e, m of at most 53      *)
(* bits.  Every operation computes the exact result and rounds it to 53    *)
(* significant bits, ties to even (the values of the model are far from    *)
(* the subnormal and overflow ranges).                                     *)
(***************************************************************************)
MantissaBits == 53

\* the rounded quotient q1 * 2^e, renormalised when rounding up carried into
\* bit 54
RoundCarry(q1, e) ==
    IF BitLen(q1) > MantissaBits
    THEN [m |-> Shr(q1, 1), e |-> e + 1]
    ELSE [m |-> q1, e |-> e]

\* round to nearest, ties to even: m = q * 2^drop + the dropped bits
RoundsUp(m, q, drop) ==
    /\ Bit(m, drop - 1) = 1
    /\ \/ \E j \in 0..(drop - 2) : Bit(m, j) = 1
       \/ Bit(q, 0) = 1

RoundQuotient(m, q, e, drop) ==
    RoundCarry(IF RoundsUp(m, q, drop) THEN BAdd(q, <<1>>) ELSE q, e + drop)

RoundDropping(m, e, drop) ==
    IF drop <= 0 THEN [m |-> m, e |-> e]
    ELSE RoundQuotient(m, Shr(m, drop), e, drop)

RoundDouble(m, e) == RoundDropping(m, e, BitLen(m) - MantissaBits)

\* float(n) of an int 0 <= n < 2^31
DFromInt(n) == [m |-> FromInt(n), e |-> 0]

DMul(a, b) ==
    IF a.m = <<>> \/ b.m = <<>> THEN [m |-> <<>>, e |-> a.e + b.e]
    ELSE RoundDouble(BMul(a.m, b.m), a.e + b.e)

AddAligned(a, b, e) ==
    RoundDouble(BAdd(Shl(a.m, a.e - e), Shl(b.m, b.e - e)), e)

DAdd(a, b) ==
    IF a.m = <<>> THEN b
    ELSE IF b.m = <<>> THEN a
    ELSE AddAligned(a, b, IF a.e < b.e THEN a.e ELSE b.e)

\* int(x): truncation toward zero (the values of the model fit an int)
DTrunc(a) == IF a.e >= 0 THEN ToInt(Shl(a.m, a.e)) ELSE ToInt(Shr(a.m, 0 - a.e))

\* the literals of mono, as CPython reads them: float.hex() gives
\* 0.3 = 0x1.3333333333333p-2, 0.6 = 0x1.3333333333333p-1,
\* 0.1 = 0x1.999999999999ap-4, 0.4 = 0x1.999999999999ap-2
Hex13333 == <<1, 3, 3, 3, 3, 3, 3, 3, 3, 3, 3, 3, 3, 3>>
Hex1999a == <<1, 9, 9, 9, 9, 9, 9, 9, 9, 9, 9, 9, 9, 10>>
D03 == [m |-> FromHex(Hex13333), e |-> 0 - 54]
D06 == [m |-> FromHex(Hex13333), e |-> 0 - 53]
D01 == [m |-> FromHex(Hex1999a), e |-> 0 - 56]
D04 == [m |-> FromHex(Hex1999a), e |-> 0 - 54]

(***************************************************************************)
(* Comparison, subtraction and division of natural numbers, for the        *)
(* doubles of vignette and brighten.                                       *)
(***************************************************************************)
\* the highest limb where x and y, of the same length, differ
CmpFrom(x, y) ==
    CHOOSE i \in 1..Len(x) : x[i] # y[i] /\ \A j \in (i + 1)..Len(x) : x[j] = y[j]

\* -1, 0 or 1 as x < y, x = y or x > y
BCmp(x, y) ==
    IF Len(x) # Len(y) THEN (IF Len(x) < Len(y) THEN 0 - 1 ELSE 1)
    ELSE IF x = y THEN 0
    ELSE IF x[CmpFrom(x, y)] < y[CmpFrom(x, y)] THEN 0 - 1 ELSE 1

\* the borrow from limb i of x - y: a lower limb of x is below that of y and
\* every pair between the two is equal
SubBorrow(x, y, i) ==
    IF \E j \in 1..(i - 1) :
          /\ x[j] < Limb(y, j)
          /\ \A k \in (j + 1)..(i - 1) : x[k] = Limb(y, k)
    THEN 1 ELSE 0

\* x - y, for x >= y
BSub(x, y) ==
    Norm([i \in 1..Len(x) |-> (Base + x[i] - Limb(y, i) - SubBorrow(x, y, i)) % Base])

BDouble(x) == BAdd(x, x)

\* one step of long division: rem2 is the remainder doubled plus the next bit
DivBit(rem2, den, quo2) ==
    IF BCmp(rem2, den) >= 0
    THEN [rem |-> BSub(rem2, den), quo |-> BAdd(quo2, <<1>>)]
    ELSE [rem |-> rem2, quo |-> quo2]

BigNat == Seq(0..(Base - 1))

\* the loop of long division over the bits hi, hi - 1, ..., lo of num: the
\* upper half of the bits, then the lower half from where that ended (a
\* function of the loop's state, halved so that the evaluation never nests
\* deeper than the logarithm of the number of bits)
DivStates == [num : BigNat, den : BigNat, hi : Int, lo : Int, rem : BigNat, quo : BigNat]

DivFrom[s \in DivStates] ==
    IF s.hi < s.lo THEN [rem |-> s.rem, quo |-> s.quo]
    ELSE IF s.hi = s.lo
    THEN DivBit(BAdd(BDouble(s.rem), FromInt(Bit(s.num, s.hi))), s.den, BDouble(s.quo))
    ELSE DivFrom[[num |-> s.num, den |-> s.den,
                  hi |-> ((s.hi + s.lo + 1) \div 2) - 1, lo |-> s.lo]
                 @@ DivFrom[[s EXCEPT !.lo = (s.hi + s.lo + 1) \div 2]]]

\* [quo, rem] of num / den, den # 0: the bits of num above bit `top` are
\* fewer than those of den, so they are the first remainder
DivTop(num, den, top) ==
    DivFrom[[num |-> num, den |-> den, hi |-> top, lo |-> 0,
             rem |-> Shr(num, top + 1), quo |-> <<>>]]

BDivMod(num, den) ==
    IF BitLen(num) < BitLen(den) THEN [rem |-> num, quo |-> <<>>]
    ELSE DivTop(num, den, BitLen(num) - BitLen(den))

\* floor(sqrt(n)) of a small n
ISqrt(n) == CHOOSE r \in 0..n : r * r <= n /\ (r + 1) * (r + 1) > n

\* one step of the digit-by-digit square root: rem4 is the remainder times 4
\* (the next two bits of the radicand are 0), trial is 4 * root + 1
SqrtBit(rem4, root, trial) ==
    IF BCmp(rem4, trial) >= 0
    THEN [rem |-> BSub(rem4, trial), root |-> BAdd(BDouble(root), <<1>>)]
    ELSE [rem |-> rem4, root |-> BDouble(root)]

\* k more steps of the square root: the first half of them, then the rest
SqrtStates == [k : Nat, rem : BigNat, root : BigNat]

SqrtFrom[s \in SqrtStates] ==
    IF s.k = 0 THEN [rem |-> s.rem, root |-> s.root]
    ELSE IF s.k = 1
    THEN SqrtBit(Shl(s.rem, 2), s.root, BAdd(Shl(s.root, 2), <<1>>))
    ELSE SqrtFrom[[k |-> s.k - (s.k \div 2)]
                  @@ SqrtFrom[[s EXCEPT !.k = s.k \div 2]]]

(***************************************************************************)
(* More operations on doubles.  A quotient or a root is computed to more   *)
(* than 53 + 2 bits, with one more bit that says whether the rest is not   *)
(* zero, and then rounded.                                                 *)
(***************************************************************************)
DZero == [m |-> <<>>, e |-> 0]

GuardBits == MantissaBits + 3

Sticky(rem) == IF rem = <<>> THEN <<>> ELSE <<1>>

DivRound(qr, e) ==
    IF qr.rem = <<>> THEN RoundDouble(qr.quo, e)
    ELSE RoundDouble(BAdd(BDouble(qr.quo), Sticky(qr.rem)), e - 1)

\* shift > 0: a double's mantissa has at most 53 bits
DivShifted(a, b, shift) ==
    DivRound(BDivMod(Shl(a.m, shift), b.m), a.e - b.e - shift)

\* a / b, b # 0
DDiv(a, b) ==
    IF a.m = <<>> THEN DZero
    ELSE DivShifted(a, b, GuardBits + BitLen(b.m) - BitLen(a.m))

SqrtRound(acc, e) ==
    IF acc.rem = <<>> THEN RoundDouble(acc.root, e)
    ELSE RoundDouble(BAdd(BDouble(acc.root), Sticky(acc.rem)), e - 1)

SqrtOf(n, r) ==
    SqrtRound(SqrtFrom[[k |-> GuardBits, rem |-> FromInt(n - r * r),
                        root |-> FromInt(r)]],
              0 - GuardBits)

\* math.sqrt(n) of an int 0 <= n < 2^31
DSqrt(n) == IF n = 0 THEN DZero ELSE SqrtOf(n, ISqrt(n))

\* a double of either sign: [neg, abs]
OneMinusAligned(one, pm, e) ==
    IF BCmp(pm, one) > 0
    THEN [neg |-> TRUE, abs |-> RoundDouble(BSub(pm, one), e)]
    ELSE [neg |-> FALSE, abs |-> RoundDouble(BSub(one, pm), e)]

OneMinusAt(p, e) == OneMinusAligned(Shl(<<1>>, 0 - e), Shl(p.m, p.e - e), e)

\* 1 - p
DOneMinus(p) ==
    IF p.m = <<>> THEN [neg |-> FALSE, abs |-> DFromInt(1)]
    ELSE OneMinusAt(p, IF p.e < 0 THEN p.e ELSE 0)

RoundInt(m, q, drop) == ToInt(q) + (IF RoundsUp(m, q, drop) THEN 1 ELSE 0)

\* round(x) of a double >= 0: to the nearest int, ties to even
DRound(a) ==
    IF a.e >= 0 THEN ToInt(Shl(a.m, a.e))
    ELSE RoundInt(a.m, Shr(a.m, 0 - a.e), 0 - a.e)

\* round(n * x) of an int n >= 0 and a double x of either sign
RoundScaled(n, x) ==
    IF x.neg THEN 0 - DRound(DMul(DFromInt(n), x.abs))
    ELSE DRound(DMul(DFromInt(n), x.abs))

(***************************************************************************)
(* Pixels and buffers.  A pixel is an RGB object; a buffer is a list of    *)
(* rows, a row a list of pixels.                                           *)
(***************************************************************************)
RGB(r, g, b, a) == [type |-> "RGB", red |-> r, green |-> g, blue |-> b, alpha |-> a]

Height(image) == Len(image)
Width(image) == Len(image[1])

\* lines 62-71, for one pixel
Brightness(pixel) ==
    DAdd(DAdd(DMul(D03, DFromInt(pixel.red)), DMul(D06, DFromInt(pixel.green))),
         DMul(D01, DFromInt(pixel.blue)))

Sepia(pixel, brightness) ==
    [pixel EXCEPT !.red = DTrunc(brightness),
                  !.green = DTrunc(DMul(D06, brightness)),
                  !.blue = DTrunc(DMul(D04, brightness))]

Gray(pixel, gray) == [pixel EXCEPT !.red = gray, !.green = gray, !.blue = gray]

MonoPixel(pixel, sepia) ==
    IF sepia THEN Sepia(pixel, Brightness(pixel))
    ELSE Gray(pixel, DTrunc(Brightness(pixel)))

(***************************************************************************)
(* The list operations the transforms use, by what they do to the list's   *)
(* contents.                                                               *)
(***************************************************************************)
ListReverse(l) == [i \in 1..Len(l) |-> l[Len(l) + 1 - i]]
ListNotCleared(l) == l

ListClear(l) == <<>>
ListExtend(l, items) == l \o items

(***************************************************************************)
(* The transforms of plugins2.py.  Each gives [image, ret]: the contents   *)
(* of the list that was passed in once the call has returned, and the      *)
(* value returned.                                                         *)
(***************************************************************************)
display(image) == [image |-> image, ret |-> FALSE]

DeredPixel(pixel) == [pixel EXCEPT !.red = 0]

dered(image) ==
    [image |-> [r \in 1..Len(image) |->
                   [c \in 1..Len(image[r]) |-> DeredPixel(image[r][c])]],
     ret |-> TRUE]

mono(image, sepia) ==
    [image |-> [r \in 1..Len(image) |->
                   [c \in 1..Len(image[r]) |-> MonoPixel(image[r][c], sepia)]],
     ret |-> TRUE]

FlipRowsReversed(image, vertical) ==
    [image |-> ListReverse(image), ret |-> TRUE]

flip(image, vertical) ==
    [image |-> IF vertical THEN ListReverse(image)
               ELSE [r \in 1..Len(image) |-> ListReverse(image[r])],
     ret |-> TRUE]

Transposed(image) ==
    LET rows == Len(image)
        cols == Len(image[1])
    IN  [c \in 1..cols |-> [r \in 1..rows |-> image[r][c]]]

TransposeNoClear(image) ==
    [image |-> ListExtend(image, Transposed(image)), ret |-> TRUE]

TransposeRebinds(image) == [image |-> image, ret |-> TRUE]

transpose(image) ==
    IF image = <<>> \/ image[1] = <<>>
    THEN [image |-> image, ret |-> TRUE]
    ELSE [image |-> ListExtend(ListClear(image), Transposed(image)), ret |-> TRUE]

RotateTransposeOnly(image, right) == transpose(image)

rotate(image, right) ==
    IF right
    THEN [image |-> transpose(flip(image, TRUE).image).image, ret |-> TRUE]
    ELSE [image |-> flip(transpose(image).image, TRUE).image, ret |-> TRUE]

(***************************************************************************)
(* vignette.  Rows and columns are counted from 1 in the model and from 0  *)
(* in the code: the code's r is r - 1 here.  The division by H raises      *)
(* ZeroDivisionError at the first pixel when H is 0.0, before any pixel is *)
(* written.  (d / H)**2 is pow(d / H, 2.0), which is the rounded product   *)
(* (d / H) * (d / H).                                                      *)
(***************************************************************************)
ZeroDivisionError == "ZeroDivisionError"

CenterLow(n) == (n - 1) \div 2

\* lines 116-117
Center(n) == n \div 2

\* line 122
Distance(r, c, center_row, center_col) ==
    DSqrt((r - 1 - center_row) * (r - 1 - center_row)
          + (c - 1 - center_col) * (c - 1 - center_col))

DSquare(q) == DMul(q, q)

\* line 123
Factor(d, H) == DOneMinus(DSquare(DDiv(d, H)))

\* lines 125-127
VignettePixel(pixel, factor) ==
    [pixel EXCEPT !.red = RoundScaled(pixel.red, factor),
                  !.green = RoundScaled(pixel.green, factor),
                  !.blue = RoundScaled(pixel.blue, factor)]

\* lines 120-128
VignetteLoop(image, center_row, center_col, H) ==
    IF H.m = <<>>
    THEN [image |-> image, ret |-> FALSE, raised |-> ZeroDivisionError]
    ELSE [image |->
              [r \in 1..Len(image) |->
                  [c \in 1..Len(image[r]) |->
                      VignettePixel(image[r][c],
                                    Factor(Distance(r, c, center_row, center_col), H))]],
          ret |-> TRUE]

VignetteAround(image, center_row, center_col) ==
    VignetteLoop(image, center_row, center_col,
                 DSqrt(center_row * center_row + center_col * center_col))

vignette(image) == VignetteAround(image, Center(Height(image)), Center(Width(image)))

(***************************************************************************)
(* blur and pixellate.  total / count is the double nearest to the         *)
(* quotient, and round() of it is the integer nearest to the quotient      *)
(* itself: a quotient half-way between two integers is a double, and       *)
(* round() gives the even one.                                             *)
(***************************************************************************)
Max(a, b) == IF a > b THEN a ELSE b
Min(a, b) == IF a < b THEN a ELSE b

\* round(total / count), total >= 0 and count > 0
RoundDiv(total, count) ==
    IF 2 * (total % count) > count
       \/ (2 * (total % count) = count /\ (total \div count) % 2 = 1)
    THEN (total \div count) + 1
    ELSE total \div count

\* what one pixel adds to total_red, ..., total_alpha and to count
Term(p, channel) == IF channel = "count" THEN 1 ELSE p[channel]

RECURSIVE SumCols(_, _, _, _)
SumCols(row, channel, j, col_max) ==
    IF j > col_max THEN 0
    ELSE Term(row[j], channel) + SumCols(row, channel, j + 1, col_max)

\* the two nested loops over rows i..row_max and columns col_min..col_max
RECURSIVE SumRows(_, _, _, _, _, _)
SumRows(source, channel, i, row_max, col_min, col_max) ==
    IF i > row_max THEN 0
    ELSE SumCols(source[i], channel, col_min, col_max)
         + SumRows(source, channel, i + 1, row_max, col_min, col_max)

Mean(source, channel, row_min, row_max, col_min, col_max) ==
    RoundDiv(SumRows(source, channel, row_min, row_max, col_min, col_max),
             SumRows(source, "count", row_min, row_max, col_min, col_max))

\* RGB(round(total_red / count), ..., round(total_alpha / count))
Average(source, row_min, row_max, col_min, col_max) ==
    RGB(Mean(source, "red", row_min, row_max, col_min, col_max),
        Mean(source, "green", row_min, row_max, col_min, col_max),
        Mean(source, "blue", row_min, row_max, col_min, col_max),
        Mean(source, "alpha", row_min, row_max, col_min, col_max))

Pixels == [type : {"RGB"}, red : Int, green : Int, blue : Int, alpha : Int]
Images == Seq(Seq(Pixels))

\* line 136
Snapshot(image) ==
    [r \in 1..Len(image) |->
        [c \in 1..Len(image[r]) |->
            RGB(image[r][c].red, image[r][c].green, image[r][c].blue,
                image[r][c].alpha)]]

BlurSourceLive(image, original) == image

\* line 149: the list the window is read from
BlurSource(image, original) == original

\* lines 140-161, for the pixel (r, c)
BlurPixel(source, r, c, radius) ==
    Average(source, Max(1, r - radius), Min(Len(source), r + radius),
            Max(1, c - radius), Min(Len(source[1]), c + radius))

\* lines 138-161: the pixels in raster order, k counts them (a function, so
\* that each assignment is made before the next pixel is computed)
BlurStates == [image : Images, original : Images, radius : Int, k : Nat]

BlurFrom[s \in BlurStates] ==
    IF s.k > Height(s.image) * Width(s.image) THEN s.image
    ELSE BlurFrom[[s EXCEPT
            !.image[((s.k - 1) \div Width(s.image)) + 1]
                   [((s.k - 1) % Width(s.image)) + 1] =
                BlurPixel(BlurSource(s.image, s.original),
                          ((s.k - 1) \div Width(s.image)) + 1,
                          ((s.k - 1) % Width(s.image)) + 1, s.radius),
            !.k = s.k + 1]]

blur(image, radius) ==
    [image |-> BlurFrom[[image |-> image, original |-> Snapshot(image),
                         radius |-> radius, k |-> 1]],
     ret |-> TRUE]

BlockEndOverlap(start, step, limit) == Min(start + step, limit)

\* lines 173-174: the last row or column of the block that starts at `start`
BlockEnd(start, step, limit) == Min(start + step - 1, limit)

\* lines 193-195
FillBlock(image, row, row_max, col, col_max, avg_pixel) ==
    [r \in 1..Len(image) |->
        [c \in 1..Len(image[r]) |->
            IF r \in row..row_max /\ c \in col..col_max THEN avg_pixel
            ELSE image[r][c]]]

\* lines 173-195, for the block at (row, col)
PixellateBlock(image, row, row_max, col, col_max) ==
    FillBlock(image, row, row_max, col, col_max,
              Average(image, row, row_max, col, col_max))

\* lines 171-195: the blocks in raster order
PixellateStates == [image : Images, step : Int, row : Int, col : Int]

PixellateFrom[s \in PixellateStates] ==
    IF s.row > Height(s.image) THEN s.image
    ELSE IF s.col > Width(s.image)
    THEN PixellateFrom[[s EXCEPT !.row = s.row + s.step, !.col = 1]]
    ELSE PixellateFrom[[s EXCEPT
            !.image = PixellateBlock(s.image, s.row,
                                     BlockEnd(s.row, s.step, Height(s.image)),
                                     s.col,
                                     BlockEnd(s.col, s.step, Width(s.image))),
            !.col = s.col + s.step]]

pixellate(image, step) ==
    [image |-> PixellateFrom[[image |-> image, step |-> step, row |-> 1, col |-> 1]],
     ret |-> TRUE]

(***************************************************************************)
(* scramble and brighten.  What random.randint gave is an input: draws is  *)
(* the sequence of the `amount` draws, each [r, c, red, green, blue].      *)
(***************************************************************************)
\* lines 208-214
ScramblePixel(image, draw) ==
    [image EXCEPT ![draw.r][draw.c] =
        RGB(draw.red, draw.green, draw.blue, image[draw.r][draw.c].alpha)]

RECURSIVE ScrambleFrom(_, _, _)
ScrambleFrom(image, draws, k) ==
    IF k > Len(draws) THEN image
    ELSE ScrambleFrom(ScramblePixel(image, draws[k]), draws, k + 1)

scramble(image, draws) == [image |-> ScrambleFrom(image, draws, 1), ret |-> TRUE]

\* lines 223-225
BrightenPixel(pixel, factor) ==
    [pixel EXCEPT !.red = Min(RoundScaled(pixel.red, factor), 255),
                  !.green = Min(RoundScaled(pixel.green, factor), 255),
                  !.blue = Min(RoundScaled(pixel.blue, factor), 255)]

brighten(image, factor) ==
    [image |-> [r \in 1..Len(image) |->
                   [c \in 1..Len(image[r]) |-> BrightenPixel(image[r][c], factor)]],
     ret |-> TRUE]

(***************************************************************************)
(* Chains: one transform applied again and again to a buffer, as when the  *)
(* tool is run on its own output.                                          *)
(***************************************************************************)
SamplePixels == {RGB(100, 200, 50, 255), RGB(2, 2, 2, 128)}

Buffers ==
    UNION {[1..h -> [1..w -> SamplePixels]] : h \in 1..MaxDim, w \in 1..MaxDim}

NoOp == [name |-> "none", arg |-> FALSE]

Current == hist[Len(hist)]

ChainStep(name, arg, image) ==
    /\ hist # <<>>
    /\ Len(hist) <= MaxApply
    /\ op = NoOp \/ op = [name |-> name, arg |-> arg]
    /\ hist' = Append(hist, image)
    /\ op' = [name |-> name, arg |-> arg]
    /\ UNCHANGED <<pipelineVars, coerceVars>>

ApplyFlip == \E v \in BOOLEAN : ChainStep("flip", v, flip(Current, v).image)

ApplyTranspose == ChainStep("transpose", FALSE, transpose(Current).image)

ApplyRotate == \E v \in BOOLEAN : ChainStep("rotate", v, rotate(Current, v).image)

ApplyMono == \E v \in BOOLEAN : ChainStep("mono", v, mono(Current, v).image)

IdlePipeline ==
    /\ pc = "idle" /\ argv = <<>> /\ result = <<>> /\ buffer = <<>>
    /\ process = FALSE /\ written = <<>> /\ failure = ""
    /\ decodes = 0 /\ calls = 0 /\ encodes = 0

IdleCoerce == raw = <<>> /\ tagged = <<>>

IdleChain == hist = <<>> /\ op = NoOp

InitChain ==
    /\ IdlePipeline /\ IdleCoerce
    /\ op = NoOp
    /\ \E image \in Buffers : hist = <<image>>

NextChain == ApplyFlip \/ ApplyTranspose \/ ApplyRotate \/ ApplyMono

SpecChain == InitChain /\ [][NextChain]_vars

(***************************************************************************)
(* Text.  A string is a sequence of atoms.  "--" and "=" are the atoms the *)
(* option syntax looks for; in a value, "0" and "5" stand for the ASCII    *)
(* digits, "U+0663" (ARABIC-INDIC DIGIT THREE) for the decimal digits      *)
(* outside ASCII, "U+00B2" (SUPERSCRIPT TWO) for the characters of         *)
(* category No that str.isdigit() accepts, "-" for a sign, "e" for the     *)
(* exponent letter, "x" for any other character; "True" and "False" are    *)
(* those words.                                                            *)
(***************************************************************************)
AsciiDigits == {"0", "5"}
DecimalDigits == AsciiDigits \cup {"U+0663"}
IsDigitChars == DecimalDigits \cup {"U+00B2"}
ValueAtoms == IsDigitChars \cup {"True", "False", "-", ".", "e", "x"}

SeqsUpTo(S, n) == UNION {[1..k -> S] : k \in 0..n}

Values == SeqsUpTo(ValueAtoms, MaxValueLen)

AllIn(text, S) == \A i \in 1..Len(text) : text[i] \in S

\* str.isdigit()
IsDigit(text) == Len(text) > 0 /\ AllIn(text, IsDigitChars)

\* whether int(text) returns, for a text that str.isdigit() accepts
IntParses(text) == AllIn(text, DecimalDigits)

\* whether float(text) returns: [sign] digits [. digits] [e [sign] digits],
\* with a digit before or after the point
FloatMantissa(text) ==
    /\ AllIn(text, DecimalDigits \cup {"."})
    /\ Cardinality({i \in 1..Len(text) : text[i] = "."}) <= 1
    /\ \E i \in 1..Len(text) : text[i] \in DecimalDigits

FloatExponent(text) ==
    \/ text = <<>>
    \/ /\ text[1] = "e"
       /\ LET digits == IF Len(text) > 1 /\ text[2] = "-"
                        THEN SubSeq(text, 3, Len(text))
                        ELSE Tail(text)
          IN  Len(digits) > 0 /\ AllIn(digits, DecimalDigits)

FloatParses(text) ==
    LET rest == IF Len(text) > 0 /\ text[1] = "-" THEN Tail(text) ELSE text
    IN  \E k \in 1..Len(rest) :
            /\ FloatMantissa(SubSeq(rest, 1, k))
            /\ FloatExponent(SubSeq(rest, k + 1, Len(rest)))

\* a Python value: its type and the text it was made from
PyValue(kind, text) == [kind |-> kind, text |-> text]
PyFalse == PyValue("bool", <<"False">>)
ValueError == PyValue("ValueError", <<>>)

\* lines 127-135: the value extract_options stores for a raw value
Coerce(value) ==
    IF value \in {<<"True">>, <<"False">>} THEN PyValue("bool", value)
    ELSE IF IsDigit(value)
         THEN (IF IntParses(value) THEN PyValue("int", value) ELSE ValueError)
    ELSE IF FloatParses(value) THEN PyValue("float", value)
    ELSE PyValue("str", value)

\* bool(v), as `if vertical:` takes it
Truthy(v) ==
    CASE v.kind = "bool" -> v.text = <<"True">>
      [] v.kind = "int" -> \E i \in 1..Len(v.text) : v.text[i] # "0"
      [] v.kind = "float" ->
            \E i \in 1..Len(v.text) :
                /\ v.text[i] \in DecimalDigits \ {"0"}
                /\ \A j \in 1..(i - 1) : v.text[j] # "e"
      [] OTHER -> Len(v.text) > 0

(***************************************************************************)
(* dicts, as sequences of [key, value] in insertion order.                 *)
(***************************************************************************)
Keys(d) == {d[i].key : i \in 1..Len(d)}

DictSet(d, k, v) ==
    IF k \in Keys(d)
    THEN [i \in 1..Len(d) |-> IF d[i].key = k THEN [key |-> k, value |-> v] ELSE d[i]]
    ELSE Append(d, [key |-> k, value |-> v])

Lookup(d, k, default) ==
    IF k \in Keys(d) THEN d[CHOOSE i \in 1..Len(d) : d[i].key = k].value ELSE default

(***************************************************************************)
(* extract_options                                                         *)
(***************************************************************************)
Contains(item, atom) == \E i \in 1..Len(item) : item[i] = atom

\* item.find(atom), 1-based
Find(item, atom) == CHOOSE i \in 1..Len(item) :
                        item[i] = atom /\ \A j \in 1..(i - 1) : item[j] # atom

StartsWithDashes(item) == Len(item) > 0 /\ item[1] = "--"

IsOptionToken(item) == StartsWithDashes(item) /\ Contains(item, "=")

Remove(args, pos) == SubSeq(args, 1, pos - 1) \o SubSeq(args, pos + 1, Len(args))

\* the while loop of lines 122-139, from position pos (1-based: args[1] is
\* the script name and is skipped)
RECURSIVE ExtractFrom(_, _, _)
ExtractFrom(args, pos, options) ==
    IF pos > Len(args)
    THEN [args |-> args, options |-> options, raised |-> FALSE]
    ELSE LET item == args[pos]
         IN  IF IsOptionToken(item)
             THEN LET split == Find(item, "=")
                      value == Coerce(SubSeq(item, split + 1, Len(item)))
                      key == SubSeq(item, 2, split - 1)
                  IN  IF value = ValueError
                      THEN [args |-> args, options |-> options, raised |-> TRUE]
                      ELSE ExtractFrom(Remove(args, pos), pos,
                                       DictSet(options, key, value))
             ELSE ExtractFrom(args, pos + 1, options)

extract_options(args) == ExtractFrom(args, 2, <<>>)

(***************************************************************************)
(* The namespace of the module plugins2 and the signatures of its          *)
(* functions.                                                              *)
(***************************************************************************)
Functions == {"display", "dered", "mono", "flip", "transpose", "rotate",
              "vignette", "blur", "pixellate", "scramble", "brighten"}

\* what else `import` and the module itself bind in plugins2
OtherAttributes == {"RGB", "math", "random", "__doc__", "__name__"}

Keyword(name) ==
    CASE name = "mono" -> <<"sepia">>
      [] name = "flip" -> <<"vertical">>
      [] name = "rotate" -> <<"right">>
      [] name = "blur" -> <<"radius">>
      [] name = "pixellate" -> <<"step">>
      [] name = "scramble" -> <<"amount">>
      [] name = "brighten" -> <<"factor">>
      [] OTHER -> <<>>

\* function.__code__.co_varnames[:function.__code__.co_argcount]
Params(name) == <<<<"image">>>> \o [i \in 1..Len(Keyword(name)) |-> <<Keyword(name)[i]>>]

\* len(function.__defaults__), 0 when it is None
DefaultsSize(name) == Len(Keyword(name))

HasAttr(command) == Len(command) = 1 /\ command[1] \in Functions \cup OtherAttributes

PyFunction(name) == [type |-> "function", name |-> name]
PyStr(text) == [type |-> "str", text |-> text]
AttributeError == [type |-> "AttributeError"]

SeqRange(l) == {l[i] : i \in 1..Len(l)}

SelectKeys(options, param) ==
    LET bad(entry) == entry.key \notin SeqRange(param)
        picked == SelectSeq(options, bad)
    IN  [i \in 1..Len(picked) |-> picked[i].key]

\* lines 109-117
CheckOptions(command, name, param, dsize, badargs) ==
    IF Len(param) # dsize + 1
    THEN PyStr(<<"error: plugin does not have default values after first parameter",
                 command>>)
    ELSE IF badargs # <<>>
    THEN PyStr(<<"error: plugin does not recognize the following options",
                 command, badargs>>)
    ELSE PyFunction(name)

lookup_command(command, options) ==
    IF ~HasAttr(command)
    THEN PyStr(<<"error: unrecognized command", command>>)
    ELSE IF command[1] \notin Functions
    THEN AttributeError
    ELSE CheckOptions(command, command[1], Params(command[1]),
                      DefaultsSize(command[1]),
                      SelectKeys(options, Params(command[1])))

(***************************************************************************)
(* parse_args.  The dict it returns is a function on the keys it holds.    *)
(***************************************************************************)
Usage == <<"usage: python3 pictool.py command [options] input [output]">>

\* lines 92-100
ParsedCommand(args, options, command) ==
    IF command.type = "AttributeError" THEN [raised |-> "AttributeError"]
    ELSE [raised |-> "",
          result |->
              (IF command.type = "str"
               THEN "error" :> command.text
               ELSE ("command" :> command) @@ ("options" :> options))
              @@ ("input" :> args[3])
              @@ (IF Len(args) = 4 THEN "output" :> args[4] ELSE <<>>)]

ParsedOptionsAfterCommand(ex) ==
    IF ex.raised THEN [raised |-> "ValueError"]
    ELSE IF Len(ex.args) \notin {4, 5}
    THEN [raised |-> "", result |-> ("error" :> Usage)]
    ELSE ParsedCommand(ex.args, ex.options, lookup_command(ex.args[2], ex.options))

\* lines 87-101
ParsedOptions(ex) ==
    IF ex.raised THEN [raised |-> "ValueError"]
    ELSE IF Len(ex.args) \notin {3, 4}
    THEN [raised |-> "", result |-> ("error" :> Usage)]
    ELSE ParsedCommand(ex.args, ex.options, lookup_command(ex.args[2], ex.options))

parse_args(args) == ParsedOptions(extract_options(args))

(***************************************************************************)
(* verify_image.  A buffer of the model is always a list of lists, so the  *)
(* two type(...) != list tests are not modelled; an element has a type.    *)
(***************************************************************************)
VerifyNoWidthCheck(image) ==
    /\ Len(image) # 0
    /\ Len(image[1]) # 0
    /\ \A r \in 1..Len(image) : \A c \in 1..Len(image[r]) : image[r][c].type = "RGB"

verify_image(image) ==
    /\ Len(image) # 0
    /\ Len(image[1]) # 0
    /\ LET width == Len(image[1])
       IN  \A r \in 1..Len(image) :
               /\ Len(image[r]) = width
               /\ \A c \in 1..Len(image[r]) : image[r][c].type = "RGB"

(***************************************************************************)
(* main, one action per stage.                                             *)
(***************************************************************************)
Script == <<"pictool.py">>

Tokens == {<<"flip">>, <<"transpose">>, <<"rotate">>, <<"display">>, <<"math">>,
           <<"in.png">>, <<"out.png">>,
           <<"--", "vertical", "=", "True">>,
           <<"--", "right", "=", "True">>,
           <<"--", "image", "=", "5">>,
           <<"--", "radius", "=", "5">>,
           <<"--", "radius", "=", "U+00B2">>}

\* the images a readable input file may hold
PA == RGB(10, 20, 30, 255)
PB == RGB(40, 50, 60, 255)
PC == RGB(70, 80, 90, 255)
PD == RGB(100, 110, 120, 255)
SampleImages == {<<<<PA, PB>>>>, <<<<PA>>, <<PB>>>>, <<<<PA, PB>>, <<PC, PD>>>>}

Has(d, key) == key \in DOMAIN d

\* line 145
HasErrorNever(args) == FALSE

HasError(args) == Has(args, "error")

\* line 157
SaveGuardNoOutput(ret, args) == ret

SaveGuard(ret, args) == ret /\ Has(args, "output")

\* line 144
Parsed(parsed) ==
    IF parsed.raised # ""
    THEN pc' = "crashed" /\ failure' = parsed.raised /\ UNCHANGED result
    ELSE pc' = "parsed" /\ result' = parsed.result /\ UNCHANGED failure

ParseArgs ==
    /\ pc = "start"
    /\ Parsed(parse_args(argv))
    /\ UNCHANGED <<argv, buffer, process, written, decodes, calls, encodes>>
    /\ UNCHANGED <<coerceVars, chainVars>>

\* lines 145-147
PrintError ==
    /\ pc = "parsed"
    /\ HasError(result)
    /\ pc' = "done"
    /\ failure' = "error"
    /\ UNCHANGED <<argv, result, buffer, process, written, decodes, calls, encodes>>
    /\ UNCHANGED <<coerceVars, chainVars>>

\* lines 148-150: read_image returns the buffer of the file's image, or None
ReadImage ==
    /\ pc = "parsed"
    /\ ~HasError(result)
    /\ decodes' = decodes + 1
    /\ \/ \E image \in SampleImages :
            buffer' = image /\ pc' = "loaded" /\ UNCHANGED failure
       \/ pc' = "done" /\ failure' = "Could not load the file" /\ UNCHANGED buffer
    /\ UNCHANGED <<argv, result, process, written, calls, encodes>>
    /\ UNCHANGED <<coerceVars, chainVars>>

\* the body of a function of plugins2, its keyword parameter bound to arg
Body(name, image, arg) ==
    CASE name = "display" -> display(image)
      [] name = "dered" -> dered(image)
      [] name = "mono" -> mono(image, arg)
      [] name = "flip" -> flip(image, arg)
      [] name = "transpose" -> transpose(image)
      [] name = "rotate" -> rotate(image, arg)

\* the call function(buffer, **options): the keyword `image` collides with
\* the positional argument
Call(name, image, options) ==
    IF <<"image">> \in Keys(options)
    THEN [raised |-> "TypeError"]
    ELSE [raised |-> ""]
         @@ Body(name, image, Truthy(Lookup(options, Keyword(name), PyFalse)))

Called(called) ==
    IF called.raised # ""
    THEN /\ pc' = "crashed" /\ failure' = called.raised
         /\ UNCHANGED <<buffer, process>>
    ELSE /\ pc' = "processed" /\ buffer' = called.image
         /\ process' = called.ret /\ UNCHANGED failure

\* line 153
InvokeTransform ==
    /\ pc = "loaded"
    /\ calls' = calls + 1
    /\ Called(Call(result.command.name, buffer, result.options))
    /\ UNCHANGED <<argv, result, written, decodes, encodes>>
    /\ UNCHANGED <<coerceVars, chainVars>>

\* lines 157-158 and save_image
SaveImage ==
    /\ pc = "processed"
    /\ SaveGuard(process, result)
    /\ encodes' = encodes + 1
    /\ IF ~verify_image(buffer)
       THEN pc' = "crashed" /\ failure' = "AssertionError" /\ UNCHANGED written
       ELSE /\ pc' = "done"
            /\ \/ written' = buffer /\ UNCHANGED failure
               \/ failure' = "Could not save the file" /\ UNCHANGED written
    /\ UNCHANGED <<argv, result, buffer, process, decodes, calls>>
    /\ UNCHANGED <<coerceVars, chainVars>>

\* line 157, the condition false: main returns
Return ==
    /\ pc = "processed"
    /\ ~SaveGuard(process, result)
    /\ pc' = "done"
    /\ UNCHANGED <<argv, result, buffer, process, written, failure,
                   decodes, calls, encodes>>
    /\ UNCHANGED <<coerceVars, chainVars>>

Init ==
    /\ pc = "start"
    /\ argv \in {<<Script>> \o tail : tail \in SeqsUpTo(Tokens, MaxArgs)}
    /\ result = <<>> /\ buffer = <<>> /\ process = FALSE /\ written = <<>>
    /\ failure = "" /\ decodes = 0 /\ calls = 0 /\ encodes = 0
    /\ IdleCoerce /\ IdleChain

Next == ParseArgs \/ PrintError \/ ReadImage \/ InvokeTransform \/ SaveImage \/ Return

Spec == Init /\ [][Next]_vars

(***************************************************************************)
(* save_image on its own, called with any list of lists: what a plug-in    *)
(* that corrupts the buffer would leave behind.                            *)
(***************************************************************************)
NotAPixel == [type |-> "tuple", red |-> 0, green |-> 0, blue |-> 0, alpha |-> 0]

AnyBuffers == SeqsUpTo(SeqsUpTo({PA, NotAPixel}, MaxDim), MaxDim)

InitSave ==
    /\ pc = "processed"
    /\ argv = <<Script, <<"transpose">>, <<"in.png">>, <<"out.png">>>>
    /\ result = parse_args(argv).result
    /\ buffer \in AnyBuffers
    /\ process = TRUE /\ written = <<>> /\ failure = ""
    /\ decodes = 1 /\ calls = 1 /\ encodes = 0
    /\ IdleCoerce /\ IdleChain

SpecSave == InitSave /\ [][SaveImage]_vars

(***************************************************************************)
(* extract_options on its own: one option token of any value.              *)
(***************************************************************************)
InitCoerce ==
    /\ IdlePipeline /\ IdleChain
    /\ raw \in Values
    /\ tagged = <<>>

Stored(ex) == IF ex.raised THEN ValueError ELSE Lookup(ex.options, <<"key">>, <<>>)

ExtractOption ==
    /\ tagged = <<>>
    /\ tagged' = Stored(extract_options(<<Script, <<"--", "key", "=">> \o raw>>))
    /\ UNCHANGED <<raw, pipelineVars, chainVars>>

SpecCoerce == InitCoerce /\ [][ExtractOption]_vars

(***************************************************************************)
(* One call of a function of plugins2 on a buffer, for every function and  *)
(* a few values of its parameter.  hist is <<the buffer before, the buffer *)
(* after>>, failure the exception the call raised.                         *)
(***************************************************************************)
Palette == <<RGB(10, 20, 30, 255), RGB(11, 23, 30, 128), RGB(255, 0, 1, 0)>>

\* the image whose pixels, in raster order, walk through the palette from
\* `seed` in steps of `mult` (mult = 0: all pixels alike)
Patterned(h, w, mult, seed) ==
    [r \in 1..h |->
        [c \in 1..w |-> Palette[((((r - 1) * w + c) * mult + seed) % Len(Palette)) + 1]]]

FilterBuffers ==
    {Patterned(h, w, mult, seed) :
        h \in 1..MaxSide, w \in 1..MaxSide, mult \in 0..2, seed \in 0..2}

Positive(x) == [neg |-> FALSE, abs |-> x]

\* the factors of brighten: 1.25 (the default), 0.5 and 2.0
Factors == {Positive([m |-> <<5>>, e |-> 0 - 2]), Positive([m |-> <<1>>, e |-> 0 - 1]),
            Positive([m |-> <<2>>, e |-> 0])}

\* the amounts of scramble and what a draw may give
Amounts == {0, 1, 2}
Colours == {<<0, 0, 0>>, <<255, 128, 7>>}

Draws(image) ==
    {[r |-> r, c |-> c, red |-> k[1], green |-> k[2], blue |-> k[3]] :
        r \in 1..Height(image), c \in 1..Width(image), k \in Colours}

Raised(called) == IF "raised" \in DOMAIN called THEN called.raised ELSE ""

FilterStep(name, arg, called) ==
    /\ pc = "idle"
    /\ Len(hist) = 1
    /\ hist' = Append(hist, called.image)
    /\ op' = [name |-> name, arg |-> arg]
    /\ failure' = Raised(called)
    /\ UNCHANGED <<pc, argv, result, buffer, process, written, decodes, calls, encodes>>
    /\ UNCHANGED coerceVars

FilterDisplay == FilterStep("display", FALSE, display(Current))

FilterDered == FilterStep("dered", FALSE, dered(Current))

FilterMono == \E v \in BOOLEAN : FilterStep("mono", v, mono(Current, v))

FilterFlip == \E v \in BOOLEAN : FilterStep("flip", v, flip(Current, v))

FilterTranspose == FilterStep("transpose", FALSE, transpose(Current))

FilterRotate == \E v \in BOOLEAN : FilterStep("rotate", v, rotate(Current, v))

FilterVignette == FilterStep("vignette", FALSE, vignette(Current))

FilterBlur == \E radius \in 1..MaxSide : FilterStep("blur", radius, blur(Current, radius))

FilterPixellate ==
    \E step \in 1..(MaxSide + 1) : FilterStep("pixellate", step, pixellate(Current, step))

FilterScramble ==
    \E amount \in Amounts : \E draws \in [1..amount -> Draws(Current)] :
        FilterStep("scramble", draws, scramble(Current, draws))

FilterBrighten ==
    \E factor \in Factors : FilterStep("brighten", factor, brighten(Current, factor))

InitFilter ==
    /\ IdlePipeline /\ IdleCoerce
    /\ op = NoOp
    /\ \E image \in FilterBuffers : hist = <<image>>

NextFilter ==
    \/ FilterDisplay \/ FilterDered \/ FilterMono \/ FilterFlip
    \/ FilterTranspose \/ FilterRotate \/ FilterVignette \/ FilterBlur
    \/ FilterPixellate \/ FilterScramble \/ FilterBrighten

SpecFilter == InitFilter /\ [][NextFilter]_vars

(***************************************************************************)
(* Properties of the pipeline (Spec), stated on sys.argv and on what the   *)
(* run did.                                                                *)
(***************************************************************************)
NotOption(item) == ~IsOptionToken(item)

\* sys.argv without its option tokens
Positionals == <<argv[1]>> \o SelectSeq(Tail(argv), NotOption)

OptionKeys ==
    {SubSeq(argv[i], 2, Find(argv[i], "=") - 1) :
        i \in {j \in 2..Len(argv) : IsOptionToken(argv[j])}}

Terminal == pc \in {"done", "crashed"}
Validated == DOMAIN result # {} /\ ~Has(result, "error")
Decoded == buffer # <<>>
OutputGiven == Has(result, "output")

\* C1: save_image is attempted if and only if validation succeeded, decode
\* succeeded, the transform returned true and an output path was given; a run of
\* display never encodes, and a run without an output path never encodes.
C1_EncodeIff ==
    /\ encodes \in {0, 1}
    /\ encodes = 1 => Validated /\ Decoded /\ calls = 1 /\ process /\ OutputGiven
    /\ (Terminal /\ Validated /\ Decoded /\ process /\ OutputGiven) => encodes = 1
    /\ (Len(Positionals) >= 2 /\ Positionals[2] = <<"display">>) => encodes = 0
    /\ Len(Positionals) < 4 => encodes = 0

C1_Witness ==
    /\ pc = "done"
    /\ encodes = 1
    /\ written = buffer
    /\ Positionals[2] = <<"flip">>

\* C2: the stages are ordered and a failure aborts the run: after a usage,
\* unknown-command, malformed-plugin or unrecognized-options error nothing is
\* decoded, transformed or encoded; after a decode failure nothing is
\* transformed or encoded; a run that reaches the transform stage calls
\* exactly one transform.
C2_StagesAbort ==
    /\ (Has(result, "error") \/ failure \in {"ValueError", "AttributeError"}) =>
          decodes = 0 /\ calls = 0 /\ encodes = 0 /\ ~Decoded /\ written = <<>>
    /\ (pc # "start" /\ Len(Positionals) \notin {3, 4}) => decodes = 0
    /\ failure = "Could not load the file" =>
          decodes = 1 /\ calls = 0 /\ encodes = 0 /\ written = <<>>
    /\ decodes <= 1 /\ calls <= 1
    /\ calls = 1 => decodes = 1 /\ Decoded
    /\ encodes = 1 => calls = 1
    /\ (pc = "processed" \/ (Terminal /\ Decoded)) => calls = 1

C2_Witness ==
    /\ pc = "done"
    /\ Has(result, "error")
    /\ result.error[1] = "error: plugin does not recognize the following options"
    /\ Len(result.error[3]) = 2

\* C3: for every command name that is not one of the registered transform
\* names, whatever else the namespace of the plugin module contains,
\* lookup_command returns the "unrecognized command" error carrying that name
\* and the run aborts before decode.
C3_UnknownCommand ==
    (/\ pc # "start"
     /\ failure # "ValueError"
     /\ Len(Positionals) \in {3, 4}
     /\ Positionals[2] \notin {<<f>> : f \in Functions})
    => /\ Has(result, "error")
       /\ result.error = <<"error: unrecognized command", Positionals[2]>>
       /\ decodes = 0

\* C4: for a registered command, lookup_command returns the transform if and
\* only if every option key is one of the parameters after the first;
\* otherwise it returns the unrecognized-options error listing every
\* offending key.
C4_OptionKeys ==
    (/\ pc # "start"
     /\ failure # "ValueError"
     /\ Len(Positionals) \in {3, 4}
     /\ Positionals[2] \in {<<f>> : f \in Functions})
    => LET name == Positionals[2][1]
           offending == OptionKeys \ SeqRange(Tail(Params(name)))
       IN  IF offending = {}
           THEN Has(result, "command") /\ result.command = PyFunction(name)
           ELSE /\ Has(result, "error")
                /\ result.error[1] =
                      "error: plugin does not recognize the following options"
                /\ SeqRange(result.error[3]) = offending

(***************************************************************************)
(* Properties of extract_options (SpecCoerce).                             *)
(***************************************************************************)
ExpectedKind(value) ==
    IF value = <<"True">> \/ value = <<"False">> THEN "bool"
    ELSE IF Len(value) > 0 /\ AllIn(value, IsDigitChars) THEN "int"
    ELSE IF FloatParses(value) THEN "float"
    ELSE "str"

\* C5: every raw value is tagged with exactly one kind, the predicates applied
\* in order: bool iff the value is "True" or "False", else int iff it is
\* non-empty and all digits, else float iff it parses as a float, else str;
\* "-5" is tagged float.
C5_CoercionOrder ==
    tagged # <<>> =>
        /\ tagged.kind = ExpectedKind(raw)
        /\ raw = <<"-", "5">> => tagged.kind = "float"

(***************************************************************************)
(* Properties of save_image (SpecSave).                                    *)
(***************************************************************************)
WellFormed(image) ==
    /\ image # <<>>
    /\ \A r \in 1..Len(image) :
          /\ image[r] # <<>>
          /\ Len(image[r]) = Len(image[1])
          /\ \A c \in 1..Len(image[r]) : image[r][c] # NotAPixel

\* C6: no buffer reaches the codec unless verify_image holds for it, and
\* verify_image is false for an empty buffer, for rows of unequal lengths and
\* for an element that is not a pixel; when verification fails the run ends in
\* a fatal state and nothing is written.
C6_VerifiedBeforeEncode ==
    /\ written # <<>> => WellFormed(written) /\ written = buffer
    /\ failure = "Could not save the file" => WellFormed(buffer)
    /\ (encodes = 1 /\ ~WellFormed(buffer)) =>
          pc = "crashed" /\ failure = "AssertionError" /\ written = <<>>
    /\ (encodes = 1 /\ WellFormed(buffer)) => pc = "done"

C6_Witness ==
    /\ pc = "crashed"
    /\ Len(buffer) = 2
    /\ Len(buffer[1]) # Len(buffer[2])
    /\ Len(buffer[2]) > 0
    /\ \A r \in 1..2 : \A c \in 1..Len(buffer[r]) : buffer[r][c] = PA

(***************************************************************************)
(* Properties of the transforms (SpecChain).                               *)
(***************************************************************************)
Rectangular(image, h, w) ==
    /\ Len(image) = h
    /\ \A r \in 1..h : Len(image[r]) = w

Steps == 1..(Len(hist) - 1)

\* C7: four successive applications of rotate(right=v) restore the original
\* dimensions and every pixel, for v in {true, false} and every non-empty
\* rectangular buffer; a left rotation is a transpose followed by a vertical
\* flip (the pixel at (i,j) comes from (j, w+1-i)), a right rotation a vertical
\* flip followed by a transpose (the pixel at (i,j) comes from (h+1-j, i)).
C7_RotateFourTimes ==
    op.name = "rotate" =>
        /\ \A k \in Steps :
            LET a == hist[k]
                b == hist[k + 1]
                h == Height(a)
                w == Width(a)
            IN  /\ Rectangular(b, w, h)
                /\ \A i \in 1..w, j \in 1..h :
                      b[i][j] = IF op.arg THEN a[h + 1 - j][i] ELSE a[j][w + 1 - i]
        /\ Len(hist) >= 5 => hist[5] = hist[1]

C7_Witness ==
    /\ op.name = "rotate"
    /\ Len(hist) = 5
    /\ Height(hist[1]) # Width(hist[1])
    /\ hist[2] # hist[1]
    /\ hist[3] # hist[1]

\* C8: transpose of a buffer of height h and width w has height w and width h,
\* its pixel at (i,j) is the original pixel at (j,i), and transposing twice
\* restores the original dimensions and pixels.
C8_TransposeTwice ==
    op.name = "transpose" =>
        /\ \A k \in Steps :
            LET a == hist[k]
                b == hist[k + 1]
            IN  /\ Rectangular(b, Width(a), Height(a))
                /\ \A i \in 1..Width(a), j \in 1..Height(a) : b[i][j] = a[j][i]
        /\ Len(hist) >= 3 => hist[3] = hist[1]

C8_Witness ==
    /\ op.name = "transpose"
    /\ Len(hist) >= 3
    /\ Height(hist[1]) # Width(hist[1])
    /\ \E i \in 1..Height(hist[1]), j \in 1..Width(hist[1]) :
          hist[1][i][j] # hist[1][1][1]

\* C9: flip(vertical=v) applied twice restores the original buffer;
\* flip(vertical=false) reverses the pixels within each row and
\* flip(vertical=true) reverses the order of the rows; the dimensions and
\* every pixel's channel values are unchanged.
C9_FlipTwice ==
    op.name = "flip" =>
        /\ \A k \in Steps :
            LET a == hist[k]
                b == hist[k + 1]
                h == Height(a)
                w == Width(a)
            IN  /\ Rectangular(b, h, w)
                /\ \A i \in 1..h, j \in 1..w :
                      b[i][j] = IF op.arg THEN a[h + 1 - i][j] ELSE a[i][w + 1 - j]
        /\ Len(hist) >= 3 => hist[3] = hist[1]

C9_Witness ==
    /\ op = [name |-> "flip", arg |-> FALSE]
    /\ Len(hist) >= 3
    /\ hist[2] # hist[1]
    /\ Height(hist[1]) > 1

\* C10: mono(sepia=false) is idempotent: applying it twice gives the same
\* buffer as applying it once (a gray level g is mapped to g), and alpha is
\* unchanged by either application.
C10_MonoIdempotent ==
    op = [name |-> "mono", arg |-> FALSE] =>
        /\ Len(hist) >= 3 => hist[3] = hist[2]
        /\ \A k \in Steps : \A r \in 1..Height(hist[k]), c \in 1..Width(hist[k]) :
              hist[k + 1][r][c].alpha = hist[k][r][c].alpha

(***************************************************************************)
(* Properties of one call of a filter (SpecFilter).                        *)
(***************************************************************************)
Channels == {"red", "green", "blue", "alpha"}

\* the sum of a channel over a set of <<row, column>> cells of an image
RECURSIVE SumOver(_, _, _)
SumOver(image, channel, cells) ==
    IF cells = {} THEN 0
    ELSE LET cell == CHOOSE x \in cells : TRUE
         IN  image[cell[1]][cell[2]][channel] + SumOver(image, channel, cells \ {cell})

\* n is total / count rounded to a nearest integer
Nearest(n, total, count) ==
    /\ 2 * (n * count - total) <= count
    /\ 2 * (total - n * count) <= count

\* every channel of the pixel is the rounded mean of that channel over the cells
MeanOf(pixel, image, cells) ==
    /\ pixel.type = "RGB"
    /\ \A channel \in Channels :
          Nearest(pixel[channel], SumOver(image, channel, cells), Cardinality(cells))

Uniform(image) ==
    \A r \in 1..Height(image), c \in 1..Width(image) : image[r][c] = image[1][1]

\* C11: for a radius > 0, after blur every pixel (r, c) has each of its four
\* channels equal to the rounded mean of that channel over the pixels the
\* buffer had BEFORE the call, in rows max(1, r - radius) .. min(height,
\* r + radius) and columns max(1, c - radius) .. min(width, c + radius): no
\* pixel is computed from a value the same blur has written; a buffer whose
\* pixels are all alike is unchanged; the dimensions are unchanged.
C11_BlurFromSnapshot ==
    (op.name = "blur" /\ Len(hist) = 2) =>
        LET a == hist[1]
            b == hist[2]
            h == Height(a)
            w == Width(a)
        IN  /\ op.arg > 0
            /\ Rectangular(b, h, w)
            /\ \A r \in 1..h, c \in 1..w :
                  MeanOf(b[r][c], a,
                         (Max(1, r - op.arg)..Min(h, r + op.arg))
                         \X (Max(1, c - op.arg)..Min(w, c + op.arg)))
            /\ Uniform(a) => b = a

C11_Witness ==
    /\ op.name = "blur"
    /\ op.arg = 1
    /\ Len(hist) = 2
    /\ Height(hist[1]) = 3
    /\ Width(hist[1]) = 3
    /\ hist[2] # hist[1]
    /\ hist[2][1][1] # hist[2][3][3]

\* C12: for a step > 0, pixellate, which works block by block on the buffer
\* itself, gives what a computation from a copy gives: every pixel (r, c) ends
\* with each channel equal to the rounded mean, over the pixels the buffer had
\* BEFORE the call, of the one block it lies in, the block whose corner is
\* (step * ((r - 1) div step), step * ((c - 1) div step)) counted from 0,
\* clipped to the buffer; when step >= max(height, width) all pixels end alike.
C12_PixellateBlocks ==
    (op.name = "pixellate" /\ Len(hist) = 2) =>
        LET a == hist[1]
            b == hist[2]
            h == Height(a)
            w == Width(a)
            step == op.arg
        IN  /\ step > 0
            /\ Rectangular(b, h, w)
            /\ \A r \in 1..h, c \in 1..w :
                  MeanOf(b[r][c], a,
                         ((step * ((r - 1) \div step) + 1)
                             ..Min(step * ((r - 1) \div step) + step, h))
                         \X ((step * ((c - 1) \div step) + 1)
                             ..Min(step * ((c - 1) \div step) + step, w)))
            /\ step >= Max(h, w) => Uniform(b) /\ MeanOf(b[1][1], a, (1..h) \X (1..w))

C12_Witness ==
    /\ op.name = "pixellate"
    /\ op.arg = 2
    /\ Len(hist) = 2
    /\ Height(hist[1]) = 3
    /\ Width(hist[1]) = 3
    /\ hist[2][1][1] = hist[2][2][2]
    /\ hist[2][1][1] # hist[2][1][3]
    /\ hist[2][1][1] # hist[1][1][1]

(***************************************************************************)
(* More properties of the pipeline (Spec).                                 *)
(***************************************************************************)
\* the number of non-option tokens that follow the command name
AfterCommand == Len(Positionals) - 2

UsageError == Has(result, "error") /\ result.error = Usage

NothingDone == decodes = 0 /\ calls = 0 /\ encodes = 0 /\ written = <<>>

\* C13, as claimed: parse_args accepts the invocation only when exactly 2 or
\* 3 non-option tokens follow the command name; every other count yields a
\* usage error, and nothing is looked up, decoded, transformed or encoded.
\* (A run that ended in the coercion of an option value, before the tokens
\* are counted, is not held against the claim here.)
C13_TwoOrThreeAfterCommand ==
    (pc # "start" /\ failure # "ValueError") =>
        /\ Validated => AfterCommand \in {2, 3}
        /\ AfterCommand \notin {2, 3} => UsageError /\ NothingDone

\* C13, amended: parse_args accepts the invocation only when exactly 1 or 2
\* non-option tokens follow the command name (the input and, optionally, the
\* output); for every other count it returns the usage error, unless the
\* coercion of an option value has raised ValueError before the tokens are
\* counted, and either way no command is looked up and nothing is decoded,
\* transformed or encoded; for a count of 1 or 2 the result is never the
\* usage error.
C13_OneOrTwoAfterCommand ==
    pc # "start" =>
        /\ Validated => AfterCommand \in {1, 2}
        /\ AfterCommand \notin {1, 2} =>
              /\ \/ UsageError
                 \/ pc = "crashed" /\ failure = "ValueError" /\ result = <<>>
              /\ failure # "AttributeError"
              /\ NothingDone
        /\ (AfterCommand \in {1, 2} /\ failure # "ValueError") => ~UsageError

C13_Witness ==
    /\ pc = "done"
    /\ Len(argv) = 5
    /\ AfterCommand = 3
    /\ Positionals[2] = <<"flip">>
    /\ UsageError

\* what the handle of the pipeline must hold after transpose, rotate(right)
\* and rotate(left) of the buffer a
Swapped(a, b, kind) ==
    /\ Rectangular(b, Width(a), Height(a))
    /\ \A i \in 1..Width(a), j \in 1..Height(a) :
          b[i][j] = CASE kind = "transpose" -> a[j][i]
                      [] kind = "right" -> a[Height(a) + 1 - j][i]
                      [] kind = "left" -> a[j][Width(a) + 1 - i]

KindOfCall ==
    IF result.command.name = "transpose" THEN "transpose"
    ELSE IF Truthy(Lookup(result.options, <<"right">>, PyFalse)) THEN "right"
    ELSE "left"

\* C14: transpose and rotate (either direction) repopulate the container they
\* are passed: when the call returns, the buffer main holds has the swapped
\* dimensions and the transposed (rotated) contents of the decoded image, and
\* that buffer is what save_image encodes when an output path is given.
C14_SameContainer ==
    [][/\ (/\ pc = "loaded" /\ pc' = "processed"
           /\ result.command.name \in {"transpose", "rotate"})
          => Swapped(buffer, buffer', KindOfCall) /\ process'
       /\ (pc = "processed" /\ written' # written)
          => written' = buffer /\ buffer' = buffer]_vars

C14_Witness ==
    /\ pc = "done"
    /\ Has(result, "command")
    /\ result.command.name = "rotate"
    /\ written = buffer
    /\ written = <<<<PB>>, <<PA>>>>

(***************************************************************************)
(* Properties of every function of plugins2 (SpecFilter).                  *)
(***************************************************************************)
SwapsDimensions == {"transpose", "rotate"}

IsPixel(p) ==
    /\ DOMAIN p = {"type", "red", "green", "blue", "alpha"}
    /\ p.type = "RGB"
    /\ \A channel \in Channels : p[channel] \in Int

\* C15: every function of the registry, called with a parameter value that
\* satisfies its precondition on a non-empty rectangular buffer of pixels,
\* leaves a non-empty rectangular buffer of pixels, of the same height and
\* width, except transpose and rotate, which leave height w and width h; so
\* verify_image holds of the buffer after the call.
C15_ShapeKept ==
    Len(hist) = 2 =>
        LET a == hist[1]
            b == hist[2]
        IN  /\ IF op.name \in SwapsDimensions
               THEN Rectangular(b, Width(a), Height(a))
               ELSE Rectangular(b, Height(a), Width(a))
            /\ Len(b) > 0
            /\ \A r \in 1..Len(b) :
                  Len(b[r]) > 0 /\ \A c \in 1..Len(b[r]) : IsPixel(b[r][c])
            /\ verify_image(b)

C15_Witness ==
    /\ Len(hist) = 2
    /\ op.name = "rotate"
    /\ Height(hist[1]) = 3
    /\ Width(hist[1]) = 2
    /\ Height(hist[2]) = 2
    /\ Width(hist[2]) = 3
    /\ ~Uniform(hist[1])

\* the double x is at most 1.0
AtMostOne(x) ==
    \/ x.m = <<>>
    \/ x.e <= 0 /\ BCmp(x.m, Shl(<<1>>, 0 - x.e)) <= 0

\* C16: with center_row = height div 2 and center_col = width div 2, every
\* pixel (r, c), counted from 0, of every buffer has (r - center_row)^2 +
\* (c - center_col)^2 <= center_row^2 + center_col^2; for every buffer other
\* than 1 x 1 the right-hand side is not 0 and the factor of every pixel lies
\* in [0, 1], so vignette leaves every red, green and blue channel between 0
\* and its old value, and alpha as it was; for a 1 x 1 buffer the right-hand
\* side, and so H, is 0.
C16_VignetteFactor ==
    (op.name = "vignette" /\ Len(hist) = 2) =>
        LET a == hist[1]
            b == hist[2]
            h == Height(a)
            w == Width(a)
            center_row == h \div 2
            center_col == w \div 2
            far == center_row * center_row + center_col * center_col
            H == DSqrt(far)
        IN  /\ \A r \in 0..(h - 1), c \in 0..(w - 1) :
                  (r - center_row) * (r - center_row)
                  + (c - center_col) * (c - center_col) <= far
            /\ (h = 1 /\ w = 1) <=> far = 0
            /\ far = 0 <=> H.m = <<>>
            /\ far # 0 =>
                  /\ failure = ""
                  /\ \A r \in 1..h, c \in 1..w :
                        /\ ~Factor(Distance(r, c, center_row, center_col), H).neg
                        /\ AtMostOne(Factor(Distance(r, c, center_row, center_col),
                                            H).abs)
            /\ \A r \in 1..h, c \in 1..w :
                  /\ b[r][c].red \in 0..a[r][c].red
                  /\ b[r][c].green \in 0..a[r][c].green
                  /\ b[r][c].blue \in 0..a[r][c].blue
                  /\ b[r][c].alpha = a[r][c].alpha

C16_Witness ==
    /\ op.name = "vignette"
    /\ Len(hist) = 2
    /\ failure = ""
    /\ Height(hist[1]) = 3
    /\ Width(hist[1]) = 3
    /\ hist[1][1][1].red > 0
    /\ hist[2][1][1].red = 0
    /\ hist[2][2][2] = hist[1][2][2]
    /\ hist[2][1][2].red > 0
    /\ hist[2][1][2].red < hist[1][1][2].red

====
